---- MODULE Spec2Model ----
(***************************************************************************)
(* Model of websocketpp/common/asio.hpp, the Boost >= 1.66 compatibility   *)
(* layer: resolver::iterator, resolver::async_resolve, io_service::post,   *)
(* io_service::strand, io_service::work and steady_timer.                  *)
(*                                                                         *)
(* Three groups of state are modelled, each with its own specification:    *)
(*   SpecIter   the resolver::iterator objects of a caller                  *)
(*   SpecLoop   one io_service with worker threads, strands, work guards    *)
(*              and a resolver running async_resolve calls                  *)
(*   SpecTimer  one steady_timer and the monotonic clock                    *)
(***************************************************************************)
EXTENDS Integers, Sequences, FiniteSets, TLC

\* ------------------------------------------------------------------ bounds
\* results_type objects alive at a time (SpecIter)
MaxResults == 2
\* entries of one resolution result
MaxEntries == 2
\* increments applied to one iterator object since it was constructed
MaxIncs == 3
\* handlers submitted to one io_service, by post or by async_resolve (SpecLoop)
MaxTasks == 2
\* io_service::work objects constructed on one io_service
MaxWorks == 1
\* ticks of the monotonic clock (SpecTimer)
MaxTime == 4
\* the longest duration a timer is set to
MaxDuration == 2
\* async_wait operations pending on one timer
MaxWaits == 2

\* the caller's iterator objects
Slots == {"a", "b", "c"}

\* the null shared_ptr
Null == 0

VARIABLES
    \* SpecIter
    heap,         \* the live results_type objects owned through shared_ptr, by id
    it,           \* Slots -> the iterator object: results_, current_, is_end_
    incs,         \* history: increments applied since construction (copied with a copy)
    fromDefault,  \* history: the object descends from iterator()
    \* SpecLoop
    tasks,        \* the handlers given to post / async_resolve, in order of submission
    sched,        \* the io_context's queue of ready function objects (task ids, FIFO)
    strandLocked, \* Strands -> a handler is running in the strand
    strandQ,      \* Strands -> the handlers waiting for the strand (task ids, FIFO)
    worker,       \* Workers -> the thread's place: out of run(), idle in run(), in a handler
    app,          \* the calling thread: idle, or inside async_resolve for a call
    works,        \* the io_service::work objects alive
    outstanding,  \* the io_context's count of outstanding work
    stopped,      \* the io_context is stopped (run() returns)
    \* SpecTimer
    now,          \* the reading of the monotonic clock (clock_type::now())
    expiry,       \* the steady_timer's stored absolute expiry
    waits,        \* the steady_timer's pending async_wait operations
    ret           \* the value the last expires_from_now() returned

iterVars == <<heap, it, incs, fromDefault>>
loopVars == <<tasks, sched, strandLocked, strandQ, worker, app, works, outstanding, stopped>>
timerVars == <<now, expiry, waits, ret>>
vars == <<heap, it, incs, fromDefault,
          tasks, sched, strandLocked, strandQ, worker, app, works, outstanding, stopped,
          now, expiry, waits, ret>>

\* ------------------------------------------------- results_type (Boost)
\* results_type::iterator is a pair (values, index); the end iterator is the
\* value-initialised one, and an empty range holds no values.
EndPos == [values |-> Null, index |-> 0]

\* results_->begin()
ResultsBegin(h, r) == IF Len(h[r]) = 0 THEN EndPos ELSE [values |-> r, index |-> 0]

\* results_->end()
ResultsEnd(h, r) == EndPos

\* ++current_
PosNext(h, c) ==
    IF c.index + 1 = Len(h[c.values]) THEN EndPos ELSE [c EXCEPT !.index = @ + 1]

\* -------------------------------------------------- resolver::iterator
\* faulty variant of the default constructor: is_end_ left false
DefaultIteratorNotEnd == [results_ |-> Null, current_ |-> EndPos, is_end_ |-> FALSE]

\* iterator() : results_(), current_(), is_end_(true)
DefaultIterator == [results_ |-> Null, current_ |-> EndPos, is_end_ |-> TRUE]

\* faulty variant of the converting constructor: is_end_ initialised to false
IteratorFromResultsNeverEnd(h, r) ==
    [results_ |-> r, current_ |-> ResultsBegin(h, r), is_end_ |-> FALSE]

\* explicit iterator(results_type&&), the results already moved to heap id r
IteratorFromResults(h, r) ==
    [results_ |-> r,
     current_ |-> ResultsBegin(h, r),
     is_end_  |-> (ResultsBegin(h, r) = ResultsEnd(h, r))]

\* faulty variant of operator++: the is_end_ guard is missing
AdvanceUnguarded(h, x) == [x EXCEPT !.current_ = [@ EXCEPT !.index = @ + 1]]

\* operator++() on one object
Advance(h, x) ==
    IF ~x.is_end_
    THEN LET c == PosNext(h, x.current_)
         IN  [x EXCEPT !.current_ = c,
                       !.is_end_  = IF c = ResultsEnd(h, x.results_) THEN TRUE ELSE @]
    ELSE x

\* faulty variant: the cursor lives in the shared snapshot, so every object that
\* shares results_ advances with the incremented one
IncrementedShared(h, its, i) ==
    [k \in Slots |->
        IF k = i \/ (its[i].results_ # Null /\ its[k].results_ = its[i].results_
                     /\ its[k].current_ = its[i].current_)
        THEN Advance(h, its[k]) ELSE its[k]]

\* the caller's objects after ++its[i]: only *this is written
Incremented(h, its, i) == [its EXCEPT ![i] = Advance(h, its[i])]

\* faulty variant of operator==: the both-at-end case is not short-circuited
IterEqNoEndCase(x, y) ==
    IF x.is_end_ # y.is_end_ THEN FALSE
    ELSE IF x.results_ = y.results_ THEN x.current_ = y.current_
    ELSE FALSE

\* operator==
IterEq(x, y) ==
    IF x.is_end_ /\ y.is_end_ THEN TRUE
    ELSE IF x.is_end_ # y.is_end_ THEN FALSE
    ELSE IF x.results_ = y.results_ THEN x.current_ = y.current_
    ELSE FALSE

\* operator!=
IterNe(x, y) == ~IterEq(x, y)

\* ------------------------------------------------------ SpecIter actions
\* the entries of a result of n endpoints
Entries(n) == [k \in 1..n |-> k]

\* shared_ptr: a results object lives as long as some iterator holds it
Release(h, its) ==
    [r \in {k \in DOMAIN h : \E i \in Slots : its[i].results_ = k} |-> h[r]]

\* the ids no live results object has
FreeIds(h) == (1..MaxResults) \ DOMAIN h

\* the id make_shared gives the next results object
FreshId(h) == CHOOSE r \in FreeIds(h) : \A k \in FreeIds(h) : r <= k

\* i = iterator()
ConstructDefault(i) ==
    /\ it' = [it EXCEPT ![i] = DefaultIterator]
    /\ heap' = Release(heap, it')
    /\ incs' = [incs EXCEPT ![i] = 0]
    /\ fromDefault' = [fromDefault EXCEPT ![i] = TRUE]
    /\ UNCHANGED <<loopVars, timerVars>>

\* i = iterator(std::move(results)), results holding n entries: make_shared
\* allocates the new object while the one i held is still alive
ConstructFromResults(i, n) ==
    /\ FreeIds(heap) # {}
    /\ LET r == FreshId(heap)
           h == [k \in DOMAIN heap \cup {r} |-> IF k = r THEN Entries(n) ELSE heap[k]]
       IN  /\ it' = [it EXCEPT ![i] = IteratorFromResults(h, r)]
           /\ heap' = Release(h, it')
    /\ incs' = [incs EXCEPT ![i] = 0]
    /\ fromDefault' = [fromDefault EXCEPT ![i] = FALSE]
    /\ UNCHANGED <<loopVars, timerVars>>

\* j = i  (copy constructor / copy assignment, both defaulted)
Copy(i, j) ==
    /\ i # j
    /\ it' = [it EXCEPT ![j] = it[i]]
    /\ heap' = Release(heap, it')
    /\ incs' = [incs EXCEPT ![j] = incs[i]]
    /\ fromDefault' = [fromDefault EXCEPT ![j] = fromDefault[i]]
    /\ UNCHANGED <<loopVars, timerVars>>

\* ++i
PreIncrement(i) ==
    /\ incs[i] < MaxIncs
    /\ it' = Incremented(heap, it, i)
    /\ incs' = [incs EXCEPT ![i] = @ + 1]
    /\ UNCHANGED <<heap, fromDefault>>
    /\ UNCHANGED <<loopVars, timerVars>>

\* j = i++ : tmp(*this); ++(*this); return tmp
PostIncrement(i, j) ==
    /\ i # j
    /\ incs[i] < MaxIncs
    /\ LET tmp == it[i]
       IN  it' = [Incremented(heap, it, i) EXCEPT ![j] = tmp]
    /\ heap' = Release(heap, it')
    /\ incs' = [incs EXCEPT ![i] = @ + 1, ![j] = incs[i]]
    /\ fromDefault' = [fromDefault EXCEPT ![j] = fromDefault[i]]
    /\ UNCHANGED <<loopVars, timerVars>>

InitIter ==
    /\ heap = <<>>
    /\ it = [i \in Slots |-> DefaultIterator]
    /\ incs = [i \in Slots |-> 0]
    /\ fromDefault = [i \in Slots |-> TRUE]

NextIter ==
    \/ \E i \in Slots : ConstructDefault(i)
    \/ \E i \in Slots, n \in 0..MaxEntries : ConstructFromResults(i, n)
    \/ \E i, j \in Slots : Copy(i, j)
    \/ \E i \in Slots : PreIncrement(i)
    \/ \E i, j \in Slots : PostIncrement(i, j)

\* ------------------------------------------------------------ io_service
\* the threads that call io_service::run()
Workers == {"w1", "w2"}

\* the io_service::strand objects
Strands == {"s1", "s2"}

\* a handler that was not wrapped has no executor bound to it
NoExecutor == "none"

\* boost::system::error_code values: success, and the resolver's failures
NoError == 0
ErrorCodes == {1}

\* the sizes of a successful resolution's result
ResultSizes == {0, MaxEntries}

\* strand::strand(ios) : impl_(make_strand(ios)) -- one strand per object
StrandImpl(s) == s

\* strand::wrap(h): bind_executor(impl_, h), for the handler of task t
Wrap(s, t) == [executor |-> StrandImpl(s), target |-> t]

\* a handler passed as it is
Plain(t) == [executor |-> NoExecutor, target |-> t]

\* the callables a caller may pass for task t
Callables(t) == {Plain(t)} \cup {Wrap(s, t) : s \in Strands}

NoArgs == <<>>

\* work_finished(): the count drops, and at zero the io_context stops
WorkFinished ==
    /\ outstanding' = outstanding - 1
    /\ stopped' = (stopped \/ outstanding = 1)

\* the target of task t is entered on thread w, holding strand lock held
Enter(t, w, held, args) ==
    /\ tasks' = [tasks EXCEPT ![t].st = "running",
                              ![t].invoked = @ + 1,
                              ![t].by = w,
                              ![t].duringCall = (app.pc = "in_async_resolve" /\ app.call = t),
                              ![t].args = args]
    /\ worker' = [worker EXCEPT ![w] = [pc |-> "handler", task |-> t, held |-> held]]

\* io_service::post(handler): boost::asio::post(*this, handler)
Post(e) ==
    /\ app.pc = "idle"
    /\ Len(tasks) < MaxTasks
    /\ LET t == Len(tasks) + 1
       IN  /\ e \in {c.executor : c \in Callables(t)}
           /\ tasks' = Append(tasks, [kind |-> "post", executor |-> e, st |-> "queued",
                                      ec |-> NoError, n |-> 0, invoked |-> 0,
                                      by |-> "nobody", duringCall |-> FALSE, args |-> NoArgs])
           /\ sched' = Append(sched, t)
    /\ outstanding' = outstanding + 1
    /\ UNCHANGED <<strandLocked, strandQ, worker, app, works, stopped>>
    /\ UNCHANGED <<iterVars, timerVars>>

\* faulty variant of async_resolve: the handler is called on the calling thread, from
\* inside the call, with an end iterator, before the operation is started
AsyncResolveCallInline(e) ==
    /\ app.pc = "idle"
    /\ Len(tasks) < MaxTasks
    /\ LET t == Len(tasks) + 1
       IN  /\ e \in {c.executor : c \in Callables(t)}
           /\ tasks' = Append(tasks, [kind |-> "resolve", executor |-> e, st |-> "outstanding",
                                      ec |-> NoError, n |-> 0, invoked |-> 1,
                                      by |-> "app", duringCall |-> TRUE,
                                      args |-> <<NoError, DefaultIterator>>])
           /\ app' = [pc |-> "in_async_resolve", call |-> t]
    /\ outstanding' = outstanding + 1
    /\ UNCHANGED <<sched, strandLocked, strandQ, worker, works, stopped>>
    /\ UNCHANGED <<iterVars, timerVars>>

\* async_resolve(q, handler), up to the start of the underlying operation:
\* the lambda that captures handler is handed to the resolver
AsyncResolveCall(e) ==
    /\ app.pc = "idle"
    /\ Len(tasks) < MaxTasks
    /\ LET t == Len(tasks) + 1
       IN  /\ e \in {c.executor : c \in Callables(t)}
           /\ tasks' = Append(tasks, [kind |-> "resolve", executor |-> e, st |-> "outstanding",
                                      ec |-> NoError, n |-> 0, invoked |-> 0,
                                      by |-> "nobody", duringCall |-> FALSE, args |-> NoArgs])
           /\ app' = [pc |-> "in_async_resolve", call |-> t]
    /\ outstanding' = outstanding + 1
    /\ UNCHANGED <<sched, strandLocked, strandQ, worker, works, stopped>>
    /\ UNCHANGED <<iterVars, timerVars>>

\* async_resolve returns to its caller
AsyncResolveReturn ==
    /\ app.pc = "in_async_resolve"
    /\ app' = [pc |-> "idle", call |-> 0]
    /\ UNCHANGED <<tasks, sched, strandLocked, strandQ, worker, works, outstanding, stopped>>
    /\ UNCHANGED <<iterVars, timerVars>>

\* the underlying resolution of call t ends with error code ec and n entries;
\* its completion (the lambda) is queued on the io_context
ResolveComplete(t, ec, n) ==
    /\ t \in DOMAIN tasks
    /\ tasks[t].kind = "resolve" /\ tasks[t].st = "outstanding"
    /\ (ec # NoError) => n = 0
    /\ tasks' = [tasks EXCEPT ![t].st = "queued", ![t].ec = ec, ![t].n = n]
    /\ sched' = Append(sched, t)
    /\ UNCHANGED <<strandLocked, strandQ, worker, app, works, outstanding, stopped>>
    /\ UNCHANGED <<iterVars, timerVars>>

\* faulty variant of the completion lambda: the results are dropped whatever ec says
LambdaIteratorAlwaysEnd(t, ec, n) == DefaultIterator

\* iterator it = ec ? iterator() : iterator(std::move(results));
\* the results of call t are owned by the new iterator alone
LambdaIterator(t, ec, n) ==
    IF ec # NoError THEN DefaultIterator
    ELSE IteratorFromResults([r \in {t} |-> Entries(n)], t)

\* a thread in run() takes the function object at the head of the queue.
\*   a posted handler is dispatched on the executor bound to it: a strand
\*     runs it at once when free and queues it otherwise;
\*   a completed async_resolve runs the lambda, which has no executor bound
\*     to it and calls handler(ec, it) itself: the call operator of what
\*     bind_executor returned forwards to the handler, on this thread.
RunTask(w) ==
    /\ worker[w].pc = "idle" /\ ~stopped
    /\ sched # <<>>
    /\ LET t == Head(sched)
           e == tasks[t].executor
       IN  /\ sched' = Tail(sched)
           /\ IF tasks[t].kind = "resolve"
              THEN /\ Enter(t, w, NoExecutor,
                            <<tasks[t].ec, LambdaIterator(t, tasks[t].ec, tasks[t].n)>>)
                   /\ UNCHANGED <<strandLocked, strandQ>>
              ELSE IF e = NoExecutor
              THEN /\ Enter(t, w, NoExecutor, NoArgs)
                   /\ UNCHANGED <<strandLocked, strandQ>>
              ELSE IF ~strandLocked[e]
              THEN /\ Enter(t, w, e, NoArgs)
                   /\ strandLocked' = [strandLocked EXCEPT ![e] = TRUE]
                   /\ UNCHANGED strandQ
              ELSE /\ tasks' = [tasks EXCEPT ![t].st = "waiting"]
                   /\ strandQ' = [strandQ EXCEPT ![e] = Append(@, t)]
                   /\ UNCHANGED <<worker, strandLocked>>
    /\ UNCHANGED <<app, works, outstanding, stopped>>
    /\ UNCHANGED <<iterVars, timerVars>>

\* a thread in run() runs the next handler waiting for a free strand
StrandRun(w, s) ==
    /\ worker[w].pc = "idle" /\ ~stopped
    /\ ~strandLocked[s] /\ strandQ[s] # <<>>
    /\ Enter(Head(strandQ[s]), w, s, NoArgs)
    /\ strandQ' = [strandQ EXCEPT ![s] = Tail(@)]
    /\ strandLocked' = [strandLocked EXCEPT ![s] = TRUE]
    /\ UNCHANGED <<sched, app, works, outstanding, stopped>>
    /\ UNCHANGED <<iterVars, timerVars>>

\* a handler that has returned: what it was given is destroyed with it
Finished(task) ==
    [task EXCEPT !.st = "done", !.executor = NoExecutor, !.ec = NoError, !.n = 0,
                 !.by = "nobody", !.duringCall = FALSE, !.args = NoArgs]

\* the handler running on w returns
HandlerExit(w) ==
    /\ worker[w].pc = "handler"
    /\ tasks' = [tasks EXCEPT ![worker[w].task] = Finished(@)]
    /\ strandLocked' = IF worker[w].held = NoExecutor THEN strandLocked
                       ELSE [strandLocked EXCEPT ![worker[w].held] = FALSE]
    /\ worker' = [worker EXCEPT ![w] = [pc |-> "idle", task |-> 0, held |-> NoExecutor]]
    /\ WorkFinished
    /\ UNCHANGED <<sched, strandQ, app, works>>
    /\ UNCHANGED <<iterVars, timerVars>>

\* faulty variant of work::work: the guard is a temporary, gone when the constructor ends
WorkConstructNotHeld(k) ==
    /\ k \notin works
    /\ works' = works \cup {k}
    /\ UNCHANGED <<tasks, sched, strandLocked, strandQ, worker, app, outstanding, stopped>>
    /\ UNCHANGED <<iterVars, timerVars>>

\* work::work(ios) : impl_(make_work_guard(ios))
WorkConstruct(k) ==
    /\ k \notin works
    /\ works' = works \cup {k}
    /\ outstanding' = outstanding + 1
    /\ UNCHANGED <<tasks, sched, strandLocked, strandQ, worker, app, stopped>>
    /\ UNCHANGED <<iterVars, timerVars>>

\* ~work(): impl_ is destroyed and gives up its count
WorkDestroy(k) ==
    /\ k \in works
    /\ works' = works \ {k}
    /\ WorkFinished
    /\ UNCHANGED <<tasks, sched, strandLocked, strandQ, worker, app>>
    /\ UNCHANGED <<iterVars, timerVars>>

\* a thread calls run(); with no outstanding work the io_context stops and
\* the call returns at once (as it does on a stopped io_context)
RunEnter(w) ==
    /\ worker[w].pc = "out" /\ ~stopped
    /\ IF outstanding = 0
       THEN stopped' = TRUE /\ UNCHANGED worker
       ELSE worker' = [worker EXCEPT ![w].pc = "idle"] /\ UNCHANGED stopped
    /\ UNCHANGED <<tasks, sched, strandLocked, strandQ, app, works, outstanding>>
    /\ UNCHANGED <<iterVars, timerVars>>

\* run() returns
RunReturn(w) ==
    /\ worker[w].pc = "idle" /\ stopped
    /\ worker' = [worker EXCEPT ![w].pc = "out"]
    /\ UNCHANGED <<tasks, sched, strandLocked, strandQ, app, works, outstanding, stopped>>
    /\ UNCHANGED <<iterVars, timerVars>>

\* io_service::reset(): restart(), once every run() call has returned
Reset ==
    /\ stopped
    /\ \A w \in Workers : worker[w].pc = "out"
    /\ stopped' = FALSE
    /\ UNCHANGED <<tasks, sched, strandLocked, strandQ, worker, app, works, outstanding>>
    /\ UNCHANGED <<iterVars, timerVars>>

InitLoop ==
    /\ tasks = <<>>
    /\ sched = <<>>
    /\ strandLocked = [s \in Strands |-> FALSE]
    /\ strandQ = [s \in Strands |-> <<>>]
    /\ worker = [w \in Workers |-> [pc |-> "out", task |-> 0, held |-> NoExecutor]]
    /\ app = [pc |-> "idle", call |-> 0]
    /\ works = {}
    /\ outstanding = 0
    /\ stopped = FALSE

NextLoop ==
    \/ \E e \in {NoExecutor} \cup Strands : Post(e)
    \/ \E e \in {NoExecutor} \cup Strands : AsyncResolveCall(e)
    \/ AsyncResolveReturn
    \/ \E t \in 1..MaxTasks, ec \in {NoError} \cup ErrorCodes, n \in ResultSizes :
           ResolveComplete(t, ec, n)
    \/ \E w \in Workers : RunTask(w)
    \/ \E w \in Workers, s \in Strands : StrandRun(w, s)
    \/ \E w \in Workers : HandlerExit(w)
    \/ \E k \in 1..MaxWorks : WorkConstruct(k)
    \/ \E k \in 1..MaxWorks : WorkDestroy(k)
    \/ \E w \in Workers : RunEnter(w)
    \/ \E w \in Workers : RunReturn(w)
    \/ Reset

\* ---------------------------------------------------------- steady_timer
\* no expires_from_now() call has returned yet
NoDuration == [called |-> FALSE, value |-> 0]

\* the duration a call returned
Duration(d) == [called |-> TRUE, value |-> d]

\* faulty variant of expires_from_now: the operands are swapped
ExpiresFromNowSwapped(exp, clk) == clk - exp

\* expires_from_now() const: this->expiry() - clock_type::now()
ExpiresFromNowValue(exp, clk) == exp - clk

\* d = timer.expires_from_now()
ExpiresFromNow ==
    /\ ret' = Duration(ExpiresFromNowValue(expiry, now))
    /\ UNCHANGED <<now, expiry, waits>>
    /\ UNCHANGED <<iterVars, loopVars>>

\* timer.expires_after(d), inherited: sets the expiry, cancels the pending waits
ExpiresAfter(d) ==
    /\ expiry' = now + d
    /\ waits' = 0
    /\ UNCHANGED <<now, ret>>
    /\ UNCHANGED <<iterVars, loopVars>>

\* timer.async_wait(h), inherited: pending until the expiry (a wait on an
\* expired timer completes at once and leaves nothing pending)
AsyncWait ==
    /\ waits < MaxWaits
    /\ expiry > now
    /\ waits' = waits + 1
    /\ UNCHANGED <<now, expiry, ret>>
    /\ UNCHANGED <<iterVars, loopVars>>

\* timer.cancel(), inherited
Cancel ==
    /\ waits > 0
    /\ waits' = 0
    /\ UNCHANGED <<now, expiry, ret>>
    /\ UNCHANGED <<iterVars, loopVars>>

\* the monotonic clock advances; the waits of an expired timer complete
Tick ==
    /\ now < MaxTime
    /\ now' = now + 1
    /\ waits' = IF expiry <= now' THEN 0 ELSE waits
    /\ UNCHANGED <<expiry, ret>>
    /\ UNCHANGED <<iterVars, loopVars>>

InitTimer ==
    /\ now = 0
    /\ expiry = 0
    /\ waits = 0
    /\ ret = NoDuration

NextTimer ==
    \/ ExpiresFromNow
    \/ \E d \in 0..MaxDuration : ExpiresAfter(d)
    \/ AsyncWait
    \/ Cancel
    \/ Tick

\* ------------------------------------------------------- specifications
Init == InitIter /\ InitLoop /\ InitTimer

SpecTimer == Init /\ [][NextTimer]_vars

SpecIter == Init /\ [][NextIter]_vars

SpecLoop == Init /\ [][NextLoop]_vars

\* ---------------------------------------------------- claims on SpecIter
\* the snapshot an iterator references, and its size
SnapshotSize(x) == Len(heap[x.results_])

\* C1: for any two reachable iterators a and b, a == b holds iff both are at
\* end, or both reference the same snapshot (results_) at the same position
\* (current_); a != b is the negation of a == b.
C1_EqualityIffEndOrSamePosition ==
    \A a, b \in Slots :
        /\ IterEq(it[a], it[b]) <=>
              \/ it[a].is_end_ /\ it[b].is_end_
              \/ it[a].results_ = it[b].results_ /\ it[a].current_ = it[b].current_
        /\ IterNe(it[a], it[b]) <=> ~IterEq(it[a], it[b])

\* two exhausted iterators over different snapshots, next to a live one
C1_Witness ==
    \E a, b, c \in Slots :
        /\ it[a].results_ # Null /\ it[b].results_ # Null
        /\ it[a].results_ # it[b].results_
        /\ it[a].is_end_ /\ it[b].is_end_ /\ incs[a] > 0 /\ incs[b] > 0
        /\ ~it[c].is_end_ /\ it[c].results_ = it[a].results_

\* C2: every iterator that descends from iterator() is at end and compares
\* equal to iterator(), whatever increments and copies were applied to it.
C2_DefaultIsEnd ==
    \A i \in Slots :
        fromDefault[i] =>
            /\ it[i].is_end_
            /\ IterEq(it[i], DefaultIterator)
            /\ IterEq(DefaultIterator, it[i])
            /\ \A j \in Slots : fromDefault[j] => IterEq(it[i], it[j])

\* a default-constructed iterator, incremented, next to a copy of it that was
\* incremented further and an iterator over a result
C2_Witness ==
    \E i, j, k \in Slots :
        /\ i # j /\ fromDefault[i] /\ fromDefault[j]
        /\ incs[i] > 0 /\ incs[j] > incs[i]
        /\ ~fromDefault[k] /\ ~it[k].is_end_

\* C3: an iterator constructed from a result of N entries is at end exactly
\* when at least N increments were applied (so after N and after no smaller
\* number), and before any increment of a non-empty result it is at the first
\* entry; while it is not at end its position is the number of increments.
C3_EndAfterExactlyN ==
    \A i \in Slots :
        ~fromDefault[i] =>
            /\ it[i].is_end_ <=> incs[i] >= SnapshotSize(it[i])
            /\ ~it[i].is_end_ =>
                   it[i].current_ = [values |-> it[i].results_, index |-> incs[i]]
            /\ (incs[i] = 0 /\ SnapshotSize(it[i]) > 0) =>
                   it[i].current_ = ResultsBegin(heap, it[i].results_)

\* an iterator over MaxEntries entries at end after exactly that many
\* increments, one over the same result one short of it, and an empty result
C3_Witness ==
    \E i, j, k \in Slots :
        /\ ~fromDefault[i] /\ ~fromDefault[j] /\ ~fromDefault[k]
        /\ SnapshotSize(it[i]) = MaxEntries /\ incs[i] = MaxEntries /\ it[i].is_end_
        /\ it[j].results_ = it[i].results_ /\ incs[j] = MaxEntries - 1 /\ ~it[j].is_end_
        /\ SnapshotSize(it[k]) = 0 /\ incs[k] = 0 /\ it[k].is_end_

\* the results object x references is alive and holds the same entries after the step
SnapshotKept(x) ==
    x.results_ # Null =>
        /\ x.results_ \in DOMAIN heap /\ x.results_ \in DOMAIN heap'
        /\ heap'[x.results_] = heap[x.results_]

\* C4: incrementing one iterator (pre or post) leaves every other iterator
\* object unchanged, and the result snapshot they share alive with the same
\* entries; post-increment returns a copy holding the position before the
\* advance.
C4_IncrementFrame ==
    [][\A i \in Slots :
          /\ PreIncrement(i) =>
                /\ heap' = heap
                /\ SnapshotKept(it[i])
                /\ \A k \in Slots \ {i} : it'[k] = it[k]
          /\ \A j \in Slots :
                PostIncrement(i, j) =>
                    /\ SnapshotKept(it[i])
                    /\ it'[j] = it[i]
                    /\ \A k \in Slots \ {i, j} : it'[k] = it[k] /\ SnapshotKept(it[k])]_vars

\* two copies taken before any increment, one of them then advanced
C4_Witness ==
    \E i, j \in Slots :
        /\ i # j
        /\ it[i].results_ # Null /\ it[j].results_ = it[i].results_
        /\ incs[j] = 0 /\ ~it[j].is_end_
        /\ incs[i] > 0 /\ it[i].current_ # it[j].current_

\* C10: incrementing an iterator that is at end (pre or post) leaves the object
\* unchanged: at end, same cursor, same snapshot.
C10_EndIsTerminal ==
    [][\A i \in Slots :
          it[i].is_end_ =>
              /\ PreIncrement(i) => it'[i] = it[i]
              /\ \A j \in Slots : PostIncrement(i, j) => it'[i] = it[i]]_vars

\* an exhausted iterator and a default one, both incremented while at end
C10_Witness ==
    \E i, j \in Slots :
        /\ ~fromDefault[i] /\ SnapshotSize(it[i]) > 0
        /\ it[i].is_end_ /\ incs[i] > SnapshotSize(it[i])
        /\ fromDefault[j] /\ incs[j] > 0

\* ---------------------------------------------------- claims on SpecLoop
\* the async_resolve calls made so far
ResolveCalls == {t \in DOMAIN tasks : tasks[t].kind = "resolve"}

\* C5, as stated: each async_resolve call has at most one invocation of its
\* handler, exactly one once its completion has run, made by a thread running
\* the loop after async_resolve has returned to its caller.
C5_InvokedOnceAfterReturn ==
    \A t \in ResolveCalls :
        /\ tasks[t].invoked <= 1
        /\ tasks[t].st \in {"outstanding", "queued"} => tasks[t].invoked = 0
        /\ tasks[t].st \in {"running", "done"} => tasks[t].invoked = 1
        /\ tasks[t].st = "running" =>
              /\ tasks[t].by \in Workers
              /\ ~tasks[t].duringCall

\* C5, amended: each async_resolve call has at most one invocation of its
\* handler, exactly one once its completion has run, made by a thread that is
\* running the loop and never by the calling thread inside async_resolve.
C5_InvokedOnceOnLoop ==
    \A t \in ResolveCalls :
        /\ tasks[t].invoked <= 1
        /\ tasks[t].st \in {"outstanding", "queued"} => tasks[t].invoked = 0
        /\ tasks[t].st \in {"running", "done"} => tasks[t].invoked = 1
        /\ tasks[t].st = "running" =>
              /\ tasks[t].by \in Workers
              /\ worker[tasks[t].by] = [pc |-> "handler", task |-> t, held |-> NoExecutor]
        /\ (app.pc = "in_async_resolve" /\ app.call = t) => tasks[t].by # "app"

\* a handler invoked on a loop thread after its call returned, beside a call
\* whose handler has run
C5_Witness ==
    \E t, u \in ResolveCalls :
        /\ tasks[t].st = "running" /\ ~tasks[t].duringCall /\ tasks[t].by \in Workers
        /\ tasks[u].st = "done" /\ tasks[u].invoked = 1

\* C6: the handler of an async_resolve call receives the error code of the
\* resolution; with an error code set it receives an iterator equal to the
\* default (end) iterator, and with none an iterator that wraps the result and
\* starts at its first entry.
C6_HandlerArguments ==
    \A t \in ResolveCalls :
        tasks[t].st = "running" =>
            LET ec == tasks[t].args[1]
                i  == tasks[t].args[2]
            IN  /\ ec = tasks[t].ec
                /\ ec # NoError =>
                      /\ i.is_end_
                      /\ IterEq(i, DefaultIterator) /\ ~IterNe(i, DefaultIterator)
                /\ ec = NoError =>
                      /\ i.results_ = t
                      /\ i.is_end_ <=> tasks[t].n = 0
                      /\ tasks[t].n > 0 => i.current_ = [values |-> t, index |-> 0]

\* one handler running with an error code and one with a non-empty result
C6_Witness ==
    \E t, u \in ResolveCalls :
        /\ tasks[t].st = "running" /\ tasks[t].ec # NoError
        /\ tasks[u].st = "running" /\ tasks[u].ec = NoError /\ tasks[u].n > 0

\* C7: no two handlers wrapped by the same strand execute at the same time,
\* whatever the number of threads in run().
C7_StrandMutualExclusion ==
    \A w, v \in Workers :
        (w # v /\ worker[w].pc = "handler" /\ worker[v].pc = "handler") =>
            \/ tasks[worker[w].task].executor = NoExecutor
            \/ tasks[worker[w].task].executor # tasks[worker[v].task].executor

\* every task is finished and nothing is queued
Drained == sched = <<>> /\ \A t \in DOMAIN tasks : tasks[t].st = "done"

\* C8: the loop is not stopped for lack of work while a work object is alive,
\* so a run() call in progress does not return, even with nothing queued; with
\* no work object alive and the queue drained, every run() call in progress
\* may return.
C8_WorkKeepsLoopAlive ==
    /\ [][(~stopped /\ stopped') => works' = {}]_vars
    /\ [](works # {} => outstanding > 0)
    /\ []((works # {} /\ ~stopped) => \A w \in Workers : ~ENABLED RunReturn(w))
    /\ []((works = {} /\ Drained) =>
            \A w \in Workers : worker[w].pc # "out" => ENABLED RunReturn(w))

\* a thread idle in run() with a work object alive and nothing to run
C8_Witness ==
    /\ works # {} /\ Drained /\ ~stopped /\ tasks # <<>>
    /\ \E w \in Workers : worker[w].pc = "idle"

\* --------------------------------------------------- claims on SpecTimer
\* C9: expires_from_now() returns the stored expiry minus the clock reading,
\* a negative value once the expiry is in the past, and leaves the timer's
\* expiry and pending waits unchanged.
C9_ExpiresFromNowReadOnly ==
    [][ExpiresFromNow =>
          /\ ret' = Duration(expiry - now)
          /\ (expiry < now => ret'.value < 0)
          /\ expiry' = expiry /\ waits' = waits]_vars

\* a negative remaining time read from a timer that was set and has expired
C9_Witness ==
    /\ ret.called /\ ret.value < 0 /\ ret.value = expiry - now
    /\ expiry > 0

====
